---------------------------- MODULE Spec2Model ----------------------------
(***************************************************************************)
(* Model of FullTextSearchDB (src/fts.py): an in-memory SQLite FTS5 table  *)
(* "documents" wrapped by insert, search and close operations.             *)
(*                                                                         *)
(* Python strings are sequences of one-character strings, so that join,    *)
(* quoting and f-string formatting are computed character by character.    *)
(* An optional value (None or v) is the sequence << >> or <<v>>.           *)
(***************************************************************************)
EXTENDS Integers, Sequences, FiniteSets

\* ------------------------------------------------------------------ bounds
MaxDocs  == 2      \* rows below the largest rowid the table may hold
MaxBatch == 2      \* longest sequence handed to add_documents / __init__
MaxTerms == 2      \* longest terms sequence handed to search_and/or/near
MaxId    == 2      \* caller-supplied ids are 1..MaxId
MaxCloses == 2     \* explicit close() calls the caller makes
MaxDraws == 2      \* random rowids the engine tries before it gives up
MaxCsrId == 2      \* cursor ids the engine has got to when a search runs
MaxReads == 2      \* index reads the engine has counted when a search runs

\* ------------------------------------------------------- string utilities
RECURSIVE Join(_, _)
\* sep.join(parts)
Join(sep, parts) ==
    IF parts = << >> THEN << >>
    ELSE IF Len(parts) = 1 THEN parts[1]
    ELSE parts[1] \o sep \o Join(sep, Tail(parts))

Digit(n) == <<"0", "1", "2", "3", "4", "5", "6", "7", "8", "9">>[n + 1]

RECURSIVE NatToStr(_)
NatToStr(n) == IF n < 10 THEN <<Digit(n)>>
               ELSE NatToStr(n \div 10) \o <<Digit(n % 10)>>

\* str(n) for a Python int
IntToStr(n) == IF n < 0 THEN <<"-">> \o NatToStr(0 - n) ELSE NatToStr(n)

DigitChars == {"0", "1", "2", "3", "4", "5", "6", "7", "8", "9"}

DigitVal(c) == CHOOSE n \in 0..9 : Digit(n) = c

\* ------------------------------------------------------------ tokenizer
\* A character is the string that holds it when it is a printable ASCII
\* character other than the backquote, or one of "\t", "\n", "\f", "\r";
\* any other character is the string that names its code point, "U+0000"
\* to "U+00FF" ("U+0060" is the backquote, "U+007F" is DEL). The characters
\* up to U+00FF are the ones the tokenizer is given here.

\* Characters the unicode61 tokenizer takes as separators; every other
\* character is part of a token.
Separators ==
    {"U+0000", "U+0001", "U+0002", "U+0003", "U+0004", "U+0005", "U+0006",
     "U+0007", "U+0008", "\t", "\n", "U+000B", "\f", "\r", "U+000E", "U+000F",
     "U+0010", "U+0011", "U+0012", "U+0013", "U+0014", "U+0015", "U+0016",
     "U+0017", "U+0018", "U+0019", "U+001A", "U+001B", "U+001C", "U+001D",
     "U+001E", "U+001F", " ", "!", "\"", "#", "$", "%", "&", "'", "(", ")",
     "*", "+", ",", "-", ".", "/", ":", ";", "<", "=", ">", "?", "@", "[",
     "\\", "]", "^", "_", "U+0060", "{", "|", "}", "~", "U+007F", "U+0080",
     "U+0081", "U+0082", "U+0083", "U+0084", "U+0085", "U+0086", "U+0087",
     "U+0088", "U+0089", "U+008A", "U+008B", "U+008C", "U+008D", "U+008E",
     "U+008F", "U+0090", "U+0091", "U+0092", "U+0093", "U+0094", "U+0095",
     "U+0096", "U+0097", "U+0098", "U+0099", "U+009A", "U+009B", "U+009C",
     "U+009D", "U+009E", "U+009F", "U+00A0", "U+00A1", "U+00A2", "U+00A3",
     "U+00A4", "U+00A5", "U+00A6", "U+00A7", "U+00A8", "U+00A9", "U+00AB",
     "U+00AC", "U+00AD", "U+00AE", "U+00AF", "U+00B0", "U+00B1", "U+00B4",
     "U+00B6", "U+00B7", "U+00B8", "U+00BB", "U+00BF", "U+00D7", "U+00F7"}

\* Case folding and removal of diacritics: <<t, S>> folds every character
\* of S to t; a character in no S is kept ("U+03BC" is the Greek small
\* letter mu).
FoldGroups ==
    {<<"a", {"A", "U+00C0", "U+00C1", "U+00C2", "U+00C3", "U+00C4", "U+00C5",
           "U+00E0", "U+00E1", "U+00E2", "U+00E3", "U+00E4", "U+00E5"}>>,
     <<"b", {"B"}>>,
     <<"c", {"C", "U+00C7", "U+00E7"}>>,
     <<"d", {"D"}>>,
     <<"e", {"E", "U+00C8", "U+00C9", "U+00CA", "U+00CB", "U+00E8", "U+00E9",
           "U+00EA", "U+00EB"}>>,
     <<"f", {"F"}>>,
     <<"g", {"G"}>>,
     <<"h", {"H"}>>,
     <<"i", {"I", "U+00CC", "U+00CD", "U+00CE", "U+00CF", "U+00EC", "U+00ED",
           "U+00EE", "U+00EF"}>>,
     <<"j", {"J"}>>,
     <<"k", {"K"}>>,
     <<"l", {"L"}>>,
     <<"m", {"M"}>>,
     <<"n", {"N", "U+00D1", "U+00F1"}>>,
     <<"o", {"O", "U+00D2", "U+00D3", "U+00D4", "U+00D5", "U+00D6", "U+00F2",
           "U+00F3", "U+00F4", "U+00F5", "U+00F6"}>>,
     <<"p", {"P"}>>,
     <<"q", {"Q"}>>,
     <<"r", {"R"}>>,
     <<"s", {"S"}>>,
     <<"t", {"T"}>>,
     <<"u", {"U", "U+00D9", "U+00DA", "U+00DB", "U+00DC", "U+00F9", "U+00FA",
           "U+00FB", "U+00FC"}>>,
     <<"v", {"V"}>>,
     <<"w", {"W"}>>,
     <<"x", {"X"}>>,
     <<"y", {"Y", "U+00DD", "U+00FD", "U+00FF"}>>,
     <<"z", {"Z"}>>,
     <<"U+00E6", {"U+00C6"}>>,
     <<"U+00F0", {"U+00D0"}>>,
     <<"U+00F8", {"U+00D8"}>>,
     <<"U+00FE", {"U+00DE"}>>,
     <<"U+03BC", {"U+00B5"}>>}

FoldMap == [c \in UNION { g[2] : g \in FoldGroups } |->
               (CHOOSE g \in FoldGroups : c \in g[2])[1]]

Fold(c) == IF c \in DOMAIN FoldMap THEN FoldMap[c] ELSE c

\* A function over 1..n as the sequence of its values.
AsSeq(f) == f \o << >>

\* The positions of s where a token starts: a token character that follows
\* a separator or begins the text.
TokenStarts(s) ==
    {i \in 1..Len(s) : s[i] \notin Separators /\ (i = 1 \/ s[i - 1] \in Separators)}

\* The position where the token that starts at i ends.
TokenEnd(s, i) ==
    CHOOSE j \in i..Len(s) :
        /\ \A k \in i..j : s[k] \notin Separators
        /\ (j = Len(s) \/ s[j + 1] \in Separators)

\* The token of s that runs from position f to position l: its folded text
\* and where it lies in s.
Token(s, f, l) ==
    [text  |-> AsSeq([p \in 1..(l - f + 1) |-> Fold(s[f + p - 1])]),
     first |-> f,
     last  |-> l]

\* The tokens of s that start at the positions starts, in order.
TokensAt(s, starts) ==
    AsSeq([k \in 1..Cardinality(starts) |->
        LET f == CHOOSE i \in starts : Cardinality({j \in starts : j <= i}) = k
        IN Token(s, f, TokenEnd(s, f))])

\* The tokens of s in order: maximal runs of token characters, folded, with
\* the positions of their first and last character in s.
SplitWords(s) == TokensAt(s, TokenStarts(s))

\* The tokenizer (unicode61) applied to a document or to a query string.
Tokenize(s) == SplitWords(s)

Texts(toks) == AsSeq([i \in 1..Len(toks) |-> toks[i].text])

\* The texts of the tokens of s.
Words(s) == Texts(Tokenize(s))

IsPrefixOf(p, w) == Len(p) <= Len(w) /\ SubSeq(w, 1, Len(p)) = p

Min(S) == CHOOSE x \in S : \A y \in S : x <= y
Max(S) == CHOOSE x \in S : \A y \in S : x >= y

\* The engine reads a query, a marker and a piece of text it copies as a C
\* string: the text ends before its first U+0000.
CString(s) ==
    LET nul == { i \in 1..Len(s) : s[i] = "U+0000" }
    IN IF nul = {} THEN s ELSE SubSeq(s, 1, Min(nul) - 1)

\* ------------------------------------------------------------------ rowids
\* A rowid is a 64-bit signed integer; the ones that occur here are not
\* negative and are held as their three 21-bit digits <<high, middle, low>>,
\* the rowid being high * 2^42 + middle * 2^21 + low.
Limb == 2097152

\* The rowid n, for n below 2^21.
Rowid(n) == <<0, 0, n>>

ZeroRowid == <<0, 0, 0>>

\* The largest rowid there is, 2^63 - 1 = 9223372036854775807.
LargestRowid == <<Limb - 1, Limb - 1, Limb - 1>>

RowidLess(a, b) ==
    \/ a[1] < b[1]
    \/ a[1] = b[1] /\ a[2] < b[2]
    \/ a[1] = b[1] /\ a[2] = b[2] /\ a[3] < b[3]

\* The rowid after a, for a below the largest.
RowidSucc(a) ==
    IF a[3] < Limb - 1 THEN <<a[1], a[2], a[3] + 1>>
    ELSE IF a[2] < Limb - 1 THEN <<a[1], a[2] + 1, 0>>
    ELSE <<a[1] + 1, 0, 0>>

MinRowid(S) == CHOOSE x \in S : \A y \in S : ~RowidLess(y, x)
MaxRowid(S) == CHOOSE x \in S : \A y \in S : ~RowidLess(x, y)

\* ------------------------------------------------ the index engine (FTS5)
\* ---- the query lexer
Whitespace == {" ", "\t", "\n", "\r"}
PunctChars == {"(", ")", "{", "}", ":", ",", "+", "*", "-", "^"}

\* The characters up to U+007F that cannot be part of a bareword; letters,
\* digits, the underscore, U+001A and every character above U+007F can.
AsciiNotBare ==
    Whitespace \cup PunctChars \cup
    {"\f", "!", "\"", "#", "$", "%", "&", "'", ".", "/", ";", "<", "=", ">",
     "?", "@", "[", "\\", "]", "|", "~",
     "U+0000", "U+0001", "U+0002", "U+0003", "U+0004", "U+0005", "U+0006",
     "U+0007", "U+0008", "U+000B", "U+000E", "U+000F", "U+0010", "U+0011",
     "U+0012", "U+0013", "U+0014", "U+0015", "U+0016", "U+0017", "U+0018",
     "U+0019", "U+001B", "U+001C", "U+001D", "U+001E", "U+001F", "U+0060",
     "U+007F"}

IsBareChar(c) == c \notin AsciiNotBare

kwAND  == <<"A", "N", "D">>
kwOR   == <<"O", "R">>
kwNOT  == <<"N", "O", "T">>
kwNEAR == <<"N", "E", "A", "R">>

LexError == <<[kind |-> "error", text |-> << >>]>>

\* The first position from i on that holds no whitespace, Len(q) + 1 when
\* only whitespace is left.
SkipSpace(q, i) ==
    CHOOSE j \in i..(Len(q) + 1) :
        /\ \A k \in i..(j - 1) : q[k] \in Whitespace
        /\ (j > Len(q) \/ q[j] \notin Whitespace)

\* The position where the bareword that starts at i ends.
BareEnd(q, i) ==
    CHOOSE j \in i..Len(q) :
        /\ \A k \in i..j : IsBareChar(q[k])
        /\ (j = Len(q) \/ ~IsBareChar(q[j + 1]))

\* The number of quote characters of q after position i, up to position p.
QuoteCount(q, i, p) == Cardinality({j \in (i + 1)..p : q[j] = "\""})

\* The positions that can close the string opened by the quote at i: inside
\* a string two adjacent quotes stand for one quote character, so the string
\* ends at the first quote that is not the first of such a pair.
QuoteEnds(q, i) ==
    {e \in (i + 1)..Len(q) :
        /\ q[e] = "\""
        /\ \A k \in (i + 1)..e : q[k] # "U+0000"
        /\ QuoteCount(q, i, e) % 2 = 1
        /\ (e = Len(q) \/ q[e + 1] # "\"")}

\* The text of the string between the quotes at i and e, one quote
\* character for every pair.
QuoteText(q, i, e) ==
    LET Chars(kept) == AsSeq([k \in 1..Len(kept) |-> q[kept[k]]])
    IN Chars(SelectSeq(AsSeq([k \in 1..(e - i - 1) |-> i + k]),
                       LAMBDA p : q[p] # "\"" \/ QuoteCount(q, i, p) % 2 = 0))

RECURSIVE Lex(_, _, _)
\* Tokens of a query string from position i on: barewords, quoted strings,
\* punctuation.  acc holds the tokens before i.  The query ends at its end
\* or before its first U+0000.
Lex(q, i, acc) ==
    LET Str(j, e) ==
            Lex(q, e + 1, Append(acc, [kind |-> "str", text |-> QuoteText(q, j, e)]))
        Quoted(j, ends) == IF ends = {} THEN LexError ELSE Str(j, Min(ends))
        Bare(j, e) ==
            Lex(q, e + 1, Append(acc, [kind |-> "bare", text |-> SubSeq(q, j, e)]))
        TokenFrom(j) ==
            IF j > Len(q) \/ q[j] = "U+0000" THEN acc
            ELSE CASE q[j] = "\"" -> Quoted(j, QuoteEnds(q, j))
                   [] q[j] \in PunctChars ->
                        Lex(q, j + 1, Append(acc, [kind |-> "punct", text |-> <<q[j]>>]))
                   [] IsBareChar(q[j]) -> Bare(j, BareEnd(q, j))
                   [] OTHER -> LexError
    IN TokenFrom(SkipSpace(q, i))

\* The token at position i; past the end, the end-of-input token.
At(toks, i) == IF i <= Len(toks) THEN toks[i] ELSE [kind |-> "eof", text |-> << >>]

IsOperator(t) == t.kind = "bare" /\ t.text \in {kwAND, kwOR, kwNOT}
IsPhraseTok(t) == t.kind = "str" \/ (t.kind = "bare" /\ ~IsOperator(t))
IsPunct(t, c) == t.kind = "punct" /\ t.text = <<c>>
IsNumber(t) == t.kind = "bare" /\ \A i \in 1..Len(t.text) : t.text[i] \in DigitChars

\* ---- the expression tree
SyntaxError == [kind |-> "error"]

\* A node of the expression: its type ("TERM", "STRING", "EOF", "AND", "OR"
\* or "NOT"), its children or (for a leaf) its phrases, distance and column
\* filter ("any": none given, "content", or "none": no column is left), and
\* the iteration state: the rowid it stands on, end reached, and nomatch
\* when the row it stands on is not a match.
Node(type, kids, phrases, dist) ==
    [type |-> type, kids |-> kids, phrases |-> phrases, dist |-> dist,
     colset |-> "any", rowid |-> ZeroRowid, eof |-> FALSE, nomatch |-> FALSE]

\* A phrase: its terms [tok, prefix], whether it must start the document,
\* the positions found in the current row and one index iterator per term.
Phrase(terms, first) ==
    [terms |-> terms, first |-> first, poslist |-> << >>, iters |-> << >>]

\* A phrase, or NEAR over phrases, as a node: a single term without ^ is a
\* TERM; an empty phrase makes the node match nothing.
Leaf(phrases, dist) ==
    Node(IF \E k \in 1..Len(phrases) : phrases[k].terms = << >> THEN "EOF"
         ELSE IF Len(phrases) = 1 /\ Len(phrases[1].terms) = 1
                 /\ ~phrases[1].first THEN "TERM"
         ELSE "STRING",
         << >>, phrases, dist)

\* left OP right; an AND or OR operand of the same type is merged in.
BinNode(op, left, right) ==
    LET Kids(n) == IF op # "NOT" /\ n.type = op THEN n.kids ELSE <<n>>
    IN Node(op, Kids(left) \o Kids(right), << >>, 0)

\* Two juxtaposed expressions: an AND in which leaves that match nothing
\* are dropped.
ImplicitAnd(left, right) ==
    LET prev == IF left.type = "AND" THEN left.kids[Len(left.kids)] ELSE left
    IN IF right.type = "EOF" THEN left
       ELSE IF prev.type = "EOF"
       THEN (IF left.type = "AND"
             THEN [left EXCEPT !.kids[Len(left.kids)] = right]
             ELSE right)
       ELSE BinNode("AND", left, right)

RECURSIVE SetColset(_, _)
\* Restricts every leaf below n to the columns cs: "content" or "none".
SetColset(n, cs) ==
    IF n.type \in {"TERM", "STRING"}
    THEN IF n.colset = "any" THEN [n EXCEPT !.colset = cs]
         ELSE IF n.colset = "content" /\ cs = "content" THEN n
         ELSE [n EXCEPT !.colset = "none", !.type = "EOF"]
    ELSE IF n.type = "EOF" THEN n
    ELSE [n EXCEPT !.kids = AsSeq([k \in 1..Len(n.kids) |-> SetColset(n.kids[k], cs)])]

\* ---- the query parser
\* A parse result is the node and the position after it; next = 0 when the
\* tokens from the given position on do not parse.
Fail == [node |-> SyntaxError, next |-> 0]

\* The words ws as terms without a prefix marker.
AsTerms(ws) == AsSeq([k \in 1..Len(ws) |-> [tok |-> ws[k], prefix |-> FALSE]])

\* The prefix marker star set on the last of the terms.
MarkLast(terms, star) ==
    IF terms = << >> THEN terms ELSE [terms EXCEPT ![Len(terms)].prefix = star]

\* The terms of a phrase after the string tok is appended: the tokens of its
\* text; the prefix marker of the string goes to the last term of the phrase.
AppendString(terms, tok, star) == MarkLast(terms \o AsTerms(Words(tok.text)), star)

RECURSIVE ParsePhraseFrom(_, _, _)
\* STRING [*] (+ STRING [*])* at position i, appended to terms.
ParsePhraseFrom(toks, i, terms) ==
    IF ~IsPhraseTok(At(toks, i)) THEN [terms |-> << >>, next |-> 0]
    ELSE LET star == IsPunct(At(toks, i + 1), "*")
             j == IF star THEN i + 2 ELSE i + 1
         IN IF IsPunct(At(toks, j), "+")
            THEN ParsePhraseFrom(toks, j + 1, AppendString(terms, toks[i], star))
            ELSE [terms |-> AppendString(terms, toks[i], star), next |-> j]

\* A phrase at position i; next is the position after it (0 when there is
\* no phrase at i).
ParsePhrase(toks, i) == ParsePhraseFrom(toks, i, << >>)

\* The phrases acc of a NEAR with the phrase ph added: an empty phrase is
\* dropped when another phrase is there.
AddPhrase(acc, ph) ==
    LET n == Len(acc)
    IN IF n = 0 THEN <<ph>>
       ELSE IF ph.terms = << >> THEN acc
       ELSE IF acc[n].terms = << >> THEN [acc EXCEPT ![n] = ph]
       ELSE Append(acc, ph)

RECURSIVE NearPhrases(_, _, _)
\* The phrases of a NEAR that follow the parsed phrase p.
NearMore(toks, acc, p) ==
    IF p.next = 0 THEN [phrases |-> acc, next |-> 0]
    ELSE NearPhrases(toks, p.next, AddPhrase(acc, Phrase(p.terms, FALSE)))

\* The phrases inside NEAR( ... ) from position i on, appended to acc.
NearPhrases(toks, i, acc) ==
    IF ~IsPhraseTok(At(toks, i)) THEN [phrases |-> acc, next |-> i]
    ELSE NearMore(toks, acc, ParsePhrase(toks, i))

\* The distance the digits ds denote, in a 32-bit signed integer that wraps
\* around; hi and lo are the two 16-bit halves of the value so far.
RECURSIVE ParseDistance(_, _, _)
ParseDistance(ds, hi, lo) ==
    IF ds = << >>
    THEN (IF hi >= 32768 THEN (hi - 65536) * 65536 + lo ELSE hi * 65536 + lo)
    ELSE LET l == lo * 10 + DigitVal(Head(ds))
         IN ParseDistance(Tail(ds), (hi * 10 + l \div 65536) % 65536, l % 65536)

DefaultDistance == 10

\* What follows the phrases ps of the NEAR at position i: [, N] ).
NearClose(toks, i, ps) ==
    LET j == ps.next
        hasDist == IsPunct(At(toks, j), ",")
        close == IF hasDist THEN j + 2 ELSE j
    IN IF /\ ps.phrases # << >> /\ j # 0
          /\ hasDist => IsPhraseTok(At(toks, j + 1))
          /\ IsPunct(At(toks, close), ")")
          /\ toks[i].kind = "bare" /\ toks[i].text = kwNEAR
          /\ hasDist => IsNumber(toks[j + 1])
       THEN [node |-> Leaf(ps.phrases,
                           IF hasDist THEN ParseDistance(toks[j + 1].text, 0, 0)
                           ELSE DefaultDistance),
             next |-> close + 1]
       ELSE Fail

\* NEAR( phrase+ [, N] ) at position i: the name must be the bareword NEAR,
\* N a bareword of digits.
ParseNear(toks, i) == NearClose(toks, i, NearPhrases(toks, i + 2, << >>))

\* The parsed phrase p as a node; initial: it was preceded by ^.
PhraseNode(p, initial) ==
    IF p.next = 0 THEN Fail
    ELSE [node |-> Leaf(<<Phrase(p.terms, initial /\ p.terms # << >>)>>,
                        DefaultDistance),
          next |-> p.next]

\* phrase | ^ phrase | NEAR( ... ) at position i.
ParseNearset(toks, i) ==
    IF IsPunct(At(toks, i), "^") THEN PhraseNode(ParsePhrase(toks, i + 1), TRUE)
    ELSE IF IsPhraseTok(At(toks, i)) /\ IsPunct(At(toks, i + 1), "(")
    THEN ParseNear(toks, i)
    ELSE PhraseNode(ParsePhrase(toks, i), FALSE)

RECURSIVE PhraseRun(_, _)
\* Number of leading string tokens of toks from position i on.
PhraseRun(toks, i) ==
    IF IsPhraseTok(At(toks, i)) THEN 1 + PhraseRun(toks, i + 1) ELSE 0

\* Number of tokens of the column filter at position i, 0 when there is
\* none: [-] STRING or [-] { STRING+ }.
ColsetLen(toks, i) ==
    LET m == IF IsPunct(At(toks, i), "-") THEN 1 ELSE 0
        n == PhraseRun(toks, i + m + 1)
    IN IF IsPunct(At(toks, i + m), "{")
       THEN (IF n >= 1 /\ IsPunct(At(toks, i + m + 1 + n), "}")
             THEN m + n + 2 ELSE 0)
       ELSE IF IsPhraseTok(At(toks, i + m)) THEN m + 1 ELSE 0

AsciiUpper == <<"A", "B", "C", "D", "E", "F", "G", "H", "I", "J", "K", "L", "M",
                "N", "O", "P", "Q", "R", "S", "T", "U", "V", "W", "X", "Y", "Z">>
AsciiLower == <<"a", "b", "c", "d", "e", "f", "g", "h", "i", "j", "k", "l", "m",
                "n", "o", "p", "q", "r", "s", "t", "u", "v", "w", "x", "y", "z">>

\* Column names are compared without regard to ASCII case.
Lower(s) == AsSeq([i \in 1..Len(s) |->
                IF \E k \in 1..26 : AsciiUpper[k] = s[i]
                THEN AsciiLower[CHOOSE k \in 1..26 : AsciiUpper[k] = s[i]]
                ELSE s[i]])

\* The one column of the table documents.
Columns == { <<"c", "o", "n", "t", "e", "n", "t">> }

\* The columns the filter of n tokens at position i leaves: "content", or
\* "none" for an excluding filter; "error" when it names an unknown column.
Colset(toks, i, n) ==
    IF \E k \in i..(i + n - 1) :
          IsPhraseTok(toks[k]) /\ Lower(toks[k].text) \notin Columns
    THEN "error"
    ELSE IF IsPunct(toks[i], "-") THEN "none" ELSE "content"

\* The parse result r restricted to the columns cs.
Restrict(r, cs) ==
    IF cs = "error" \/ r.next = 0 THEN Fail
    ELSE [node |-> SetColset(r.node, cs), next |-> r.next]

\* [colset :] nearset at position i, the column filter there being n tokens.
CnearsetAt(toks, i, n) ==
    IF IsPunct(At(toks, i), "-") \/ IsPunct(At(toks, i), "{")
       \/ (n > 0 /\ IsPunct(At(toks, i + n), ":"))
    THEN IF n = 0 \/ ~IsPunct(At(toks, i + n), ":") THEN Fail
         ELSE Restrict(ParseNearset(toks, i + n + 1), Colset(toks, i, n))
    ELSE ParseNearset(toks, i)

\* [colset :] nearset at position i.
ParseCnearset(toks, i) == CnearsetAt(toks, i, ColsetLen(toks, i))

RECURSIVE ParseExprList(_, _, _)
\* The juxtaposed cnearsets that follow left and the parsed cnearset r.
ExprListMore(toks, left, r) ==
    IF r.next = 0 THEN Fail
    ELSE ParseExprList(toks, r.next, ImplicitAnd(left, r.node))

\* The juxtaposed cnearsets that follow left, from position i on.
ParseExprList(toks, i, left) ==
    IF IsPhraseTok(At(toks, i)) \/ IsPunct(At(toks, i), "^")
       \/ IsPunct(At(toks, i), "-") \/ IsPunct(At(toks, i), "{")
    THEN ExprListMore(toks, left, ParseCnearset(toks, i))
    ELSE [node |-> left, next |-> i]

\* The operator of a precedence level: OR binds loosest, NOT tightest.
LevelOp(level) == <<"OR", "AND", "NOT">>[level]
LevelKw(level) == <<kwOR, kwAND, kwNOT>>[level]

RECURSIVE ParseLevel(_, _, _)
RECURSIVE ParseChain(_, _, _, _)
RECURSIVE ParsePrimary(_, _)

\* The parenthesised expression r, closed by ) and restricted to the
\* columns cs ("any": no filter before the parenthesis).
Group(toks, r, cs) ==
    IF cs = "error" \/ r.next = 0 \/ ~IsPunct(At(toks, r.next), ")") THEN Fail
    ELSE [node |-> IF cs = "any" THEN r.node ELSE SetColset(r.node, cs),
          next |-> r.next + 1]

\* The cnearsets juxtaposed to the parsed cnearset r.
ExprList(toks, r) ==
    IF r.next = 0 THEN Fail ELSE ParseExprList(toks, r.next, r.node)

\* ( expr ) | colset : ( expr ) | cnearset+ at position i, where a column
\* filter of n tokens may start.
PrimaryAt(toks, i, n) ==
    LET filtered == n > 0 /\ IsPunct(At(toks, i + n), ":")
                          /\ IsPunct(At(toks, i + n + 1), "(")
        open == IF filtered THEN i + n + 1 ELSE i
    IN IF IsPunct(At(toks, open), "(")
       THEN Group(toks, ParseLevel(toks, 1, open + 1),
                  IF filtered THEN Colset(toks, i, n) ELSE "any")
       ELSE ExprList(toks, ParseCnearset(toks, i))

\* ( expr ) | colset : ( expr ) | cnearset+ at position i.
ParsePrimary(toks, i) == PrimaryAt(toks, i, ColsetLen(toks, i))

\* The chain of left and the parsed operand r, continued.
ChainMore(toks, level, left, r) ==
    IF r.next = 0 THEN Fail
    ELSE ParseChain(toks, level, BinNode(LevelOp(level), left, r.node), r.next)

\* (OP operand)* after left, for the operator OP of the level; the operands
\* are of the next level; left associative.
ParseChain(toks, level, left, i) ==
    IF At(toks, i).kind = "bare" /\ At(toks, i).text = LevelKw(level)
    THEN ChainMore(toks, level, left, ParseLevel(toks, level + 1, i + 1))
    ELSE [node |-> left, next |-> i]

\* The chain that starts with the parsed operand l.
ChainFrom(toks, level, l) ==
    IF l.next = 0 THEN Fail ELSE ParseChain(toks, level, l.node, l.next)

\* An expression of a precedence level at position i.
ParseLevel(toks, level, i) ==
    IF level > 3 THEN ParsePrimary(toks, i)
    ELSE ChainFrom(toks, level, ParseLevel(toks, level + 1, i))

\* The expression r when it takes all the tokens.
Whole(toks, r) == IF r.next = Len(toks) + 1 THEN r.node ELSE SyntaxError

\* The expression the tokens of a query make up.
ParseTokens(toks) ==
    IF toks = LexError THEN SyntaxError ELSE Whole(toks, ParseLevel(toks, 1, 1))

\* The engine's parse of a MATCH argument.
Parse(q) == ParseTokens(Lex(q, 1, << >>))

\* ---- the index and its iterators
\* Rows of a table in rowid order, the order an FTS5 scan visits them in.
RECURSIVE RowsInOrder(_)
RowsInOrder(rows) ==
    IF rows = {} THEN << >>
    ELSE LET r == CHOOSE x \in rows : \A y \in rows : ~RowidLess(y[1], x[1])
         IN <<r>> \o RowsInOrder(rows \ {r})

\* The rows, in order, as index entries: rowid and tokens.
Entries(rows) ==
    AsSeq([k \in 1..Len(rows) |-> [rowid |-> rows[k][1], toks |-> Words(rows[k][2])]])

\* The index of a table: per row, in rowid order, its tokens.
Index(tbl) == Entries(RowsInOrder(tbl))

\* The positions in a row at which a term occurs, in ascending order.
TermHits(toks, term) ==
    SelectSeq(AsSeq([p \in 1..Len(toks) |-> p]),
              LAMBDA p : IF term.prefix THEN IsPrefixOf(term.tok, toks[p])
                         ELSE toks[p] = term.tok)

\* An iterator over the rows that hold a term: docs are the rows with the
\* positions of the term, i the entry it stands on (past the end: done).
\* With no column left (zero) it reports rowid 0 and no positions on every
\* row; a prefix iterator then visits no row at all.
Iter(idx, term, colset) ==
    LET hits == AsSeq([k \in 1..Len(idx) |->
                    [rowid |-> idx[k].rowid, pos |-> TermHits(idx[k].toks, term)]])
    IN [docs |-> IF colset = "none" /\ term.prefix THEN << >>
                 ELSE SelectSeq(hits, LAMBDA d : d.pos # << >>),
        i |-> 1, zero |-> colset = "none"]

ItEof(it) == it.i > Len(it.docs)
ItRowid(it) == IF it.zero THEN ZeroRowid ELSE it.docs[it.i].rowid
ItData(it) == IF it.zero THEN << >> ELSE it.docs[it.i].pos
ItNext(it) == [it EXCEPT !.i = @ + 1]

\* Advances to the first later entry whose rowid is at least from.
ItNextFrom(it, from) ==
    LET later == { j \in (it.i + 1)..Len(it.docs) : ~RowidLess(it.docs[j].rowid, from) }
    IN [it EXCEPT !.i = IF later = {} THEN Len(it.docs) + 1 ELSE Min(later)]

\* ---- matching a leaf against the row its iterators stand on
\* The positions at which the phrase starts in the row: those of its first
\* term that are followed by the other terms, position 1 only under ^.
PhrasePositions(p) ==
    LET n == Len(p.terms)
        data == AsSeq([k \in 1..n |-> ItData(p.iters[k])])
    IN SelectSeq(data[1],
                 LAMBDA s : /\ \A k \in 2..n :
                                 \E j \in 1..Len(data[k]) : data[k][j] = s + k - 1
                            /\ p.first => s = 1)

\* The position a reader is at, past its last one the sentinel.
PosEof == 1073741824
PosAt(l, i) == IF i <= Len(l) THEN l[i] ELSE PosEof

\* A distance as the window arithmetic uses it (positions stay below PosEof).
Clamp(d) == IF d > PosEof THEN PosEof ELSE IF d < 0 - PosEof THEN 0 - PosEof ELSE d

RECURSIVE NearAlign(_, _, _, _, _, _, _)
\* Moves the readers idx of the position lists forward until every reader k
\* is inside the window [imax - sizes[k] - dist, imax], imax being the
\* largest position; done when a reader runs out of positions.
NearAlign(lists, sizes, dist, idx, imax, k, aligned) ==
    IF k > Len(lists)
    THEN (IF aligned THEN [done |-> FALSE, idx |-> idx]
          ELSE NearAlign(lists, sizes, dist, idx, imax, 1, TRUE))
    ELSE LET imin == imax - sizes[k] - dist
             pos == PosAt(lists[k], idx[k])
         IN IF pos >= imin /\ pos <= imax
            THEN NearAlign(lists, sizes, dist, idx, imax, k + 1, aligned)
            ELSE LET ahead == { j \in idx[k]..Len(lists[k]) : lists[k][j] >= imin }
                 IN IF pos < imin /\ ahead = {} THEN [done |-> TRUE, idx |-> idx]
                    ELSE LET j == IF pos < imin THEN Min(ahead) ELSE idx[k]
                             at == lists[k][j]
                         IN NearAlign(lists, sizes, dist, [idx EXCEPT ![k] = j],
                                      IF at > imax THEN at ELSE imax, k + 1, FALSE)

RECURSIVE NearTrim(_, _, _, _, _)
\* The position lists reduced to the positions that take part in a clump:
\* one position of each phrase inside a common window. outs are the reduced
\* lists so far.
NearTrim(lists, sizes, dist, idx, outs) ==
    LET n == Len(lists)
        Step(new, nidx, adv) ==
            IF nidx[adv] > Len(lists[adv]) THEN new
            ELSE NearTrim(lists, sizes, dist, nidx, new)
        Advance(at, adv) ==
            Step(AsSeq([k \in 1..n |->
                     LET pos == lists[k][at[k]] IN
                     IF outs[k] = << >> \/ outs[k][Len(outs[k])] # pos
                     THEN Append(outs[k], pos) ELSE outs[k]]),
                 [at EXCEPT ![adv] = @ + 1], adv)
        Clump(at) ==
            LET Look(k) == PosAt(lists[k], at[k] + 1)
            IN Advance(at, CHOOSE k \in 1..n :
                              /\ \A m \in 1..n : Look(k) <= Look(m)
                              /\ \A m \in 1..(k - 1) : Look(m) > Look(k))
        Aligned(a) == IF a.done THEN outs ELSE Clump(a.idx)
    IN Aligned(NearAlign(lists, sizes, dist, idx, PosAt(lists[1], idx[1]), 1, TRUE))

\* The positions of phrase k of the leaf in the row: for a single term
\* without ^ and column filter, those of its iterator.
PhraseFound(n, k) ==
    IF Len(n.phrases[k].terms) > 1 \/ n.colset # "any" \/ n.phrases[k].first
    THEN PhrasePositions(n.phrases[k])
    ELSE ItData(n.phrases[k].iters[1])

\* The first phrase of the leaf that does not occur in the row, one past
\* the last phrase when all occur.
FirstMiss(n) ==
    LET miss == { k \in 1..Len(n.phrases) : PhraseFound(n, k) = << >> }
    IN IF miss = {} THEN Len(n.phrases) + 1 ELSE Min(miss)

\* The phrases of the leaf, the position lists set up to phrase stop.
SetPoslists(n, stop) ==
    AsSeq([k \in 1..Len(n.phrases) |->
        IF k <= stop THEN [n.phrases[k] EXCEPT !.poslist = PhraseFound(n, k)]
        ELSE n.phrases[k]])

\* The leaf with the position lists outs that NEAR has reduced set to.
NearReduced(n, set, outs) ==
    [n EXCEPT !.phrases = AsSeq([k \in 1..Len(set) |->
                              [set[k] EXCEPT !.poslist = outs[k]]]),
              !.nomatch = outs[1] = << >>]

\* The leaf with the phrases set, stop being the first phrase that does not
\* occur.
NearTestAt(n, set, stop) ==
    LET np == Len(set)
    IN IF stop <= np THEN [n EXCEPT !.phrases = set, !.nomatch = TRUE]
       ELSE IF np = 1 THEN [n EXCEPT !.phrases = set, !.nomatch = FALSE]
       ELSE NearReduced(n, set,
                NearTrim(AsSeq([k \in 1..np |-> set[k].poslist]),
                         AsSeq([k \in 1..np |-> Len(set[k].terms)]),
                         Clamp(n.dist), AsSeq([k \in 1..np |-> 1]),
                         AsSeq([k \in 1..np |-> << >>])))

NearTestUpto(n, stop) == NearTestAt(n, SetPoslists(n, stop), stop)

\* The leaf tested on the row its iterators stand on: the position lists of
\* its phrases are set one by one up to the first phrase that does not
\* occur (its list is emptied, the later ones keep what they held); when
\* all occur, NEAR reduces the lists. nomatch unless the row matches.
NearTest(n) == NearTestUpto(n, FirstMiss(n))

\* ---- iterating an expression over the table
RECURSIVE SetEof(_)
\* The node and everything below it have reached the end.
SetEof(n) ==
    [n EXCEPT !.eof = TRUE, !.nomatch = FALSE,
              !.kids = AsSeq([k \in 1..Len(n.kids) |-> SetEof(n.kids[k])])]

RECURSIVE ZeroPoslist(_)
\* Empties the position lists of every phrase below n.
ZeroPoslist(n) ==
    [n EXCEPT !.kids = AsSeq([k \in 1..Len(n.kids) |-> ZeroPoslist(n.kids[k])]),
              !.phrases = AsSeq([k \in 1..Len(n.phrases) |->
                              [n.phrases[k] EXCEPT !.poslist = << >>]])]

\* Orders two nodes by the row they stand on; one at the end comes last.
NodeCompare(p1, p2) ==
    IF p2.eof THEN -1
    ELSE IF p1.eof THEN 1
    ELSE IF RowidLess(p1.rowid, p2.rowid) THEN -1
    ELSE IF RowidLess(p2.rowid, p1.rowid) THEN 1 ELSE 0

\* A TERM node takes rowid and positions from its one iterator.
TestTerm(n) ==
    LET it == n.phrases[1].iters[1]
    IN [n EXCEPT !.phrases[1].poslist = ItData(it), !.rowid = ItRowid(it),
                 !.nomatch = ItData(it) = << >>]

\* The iterators of all terms of the leaf.
LeafIters(n) ==
    UNION { { n.phrases[k].iters[j] : j \in 1..Len(n.phrases[k].iters) } :
            k \in 1..Len(n.phrases) }

\* The iterator has an entry for row r at or after the one it stands on.
IterHas(it, r) == \E m \in it.i..Len(it.docs) : it.docs[m].rowid = r

\* The iterator moved to its entry for row r.
IterAt(it, r) == [it EXCEPT !.i = CHOOSE m \in 1..Len(it.docs) : it.docs[m].rowid = r]

\* The rows, not before the row any iterator of the leaf stands on, that
\* hold all terms of the leaf.
CommonRows(n) ==
    LET its == LeafIters(n)
        first == n.phrases[1].iters[1]
        lo == MaxRowid({ ItRowid(it) : it \in its })
    IN { r \in { first.docs[m].rowid : m \in first.i..Len(first.docs) } :
           ~RowidLess(r, lo) /\ \A it \in its : IterHas(it, r) }

\* The leaf with all its iterators moved to row r.
LeafAt(n, r) ==
    [n EXCEPT !.rowid = r,
              !.phrases = AsSeq([k \in 1..Len(n.phrases) |->
                 [n.phrases[k] EXCEPT !.iters =
                    AsSeq([j \in 1..Len(n.phrases[k].iters) |->
                        IterAt(n.phrases[k].iters[j], r)])]])]

TestStringAmong(n, common) ==
    IF common = {} THEN [n EXCEPT !.eof = TRUE, !.nomatch = FALSE]
    ELSE NearTest(LeafAt(n, MinRowid(common)))

\* A STRING node moves its iterators to the first row, not before the row
\* any of them stands on, that holds all its terms, and is tested there; it
\* is at the end when there is no such row.
TestString(n) ==
    IF n.colset = "none" THEN NearTest([n EXCEPT !.rowid = ZeroRowid])
    ELSE TestStringAmong(n, CommonRows(n))

\* The leaf after its first iterator has been moved.
LeafMoved(n) ==
    IF ItEof(n.phrases[1].iters[1]) THEN [n EXCEPT !.eof = TRUE]
    ELSE IF n.type = "TERM" THEN TestTerm(n) ELSE TestString(n)

\* A leaf steps by its first iterator: to the next row, or to the next row
\* from rowid ifrom on when bfrom.
NextLeaf(n, bfrom, ifrom) ==
    LeafMoved([n EXCEPT !.phrases[1].iters[1] =
                            IF bfrom THEN ItNextFrom(@, ifrom) ELSE ItNext(@),
                        !.nomatch = FALSE])

RECURSIVE OrPick(_, _, _)
\* The child an OR stands on: the one on the earliest row, a later child
\* on the same row taking over when it matches; best is the pick so far.
OrPick(kids, k, best) ==
    IF k > Len(kids) THEN best
    ELSE LET c == NodeCompare(kids[best], kids[k])
         IN OrPick(kids, k + 1,
                   IF c > 0 \/ (c = 0 /\ ~kids[k].nomatch) THEN k ELSE best)

\* An OR stands on the row of the child it picks.
OrOn(n, p) == [n EXCEPT !.rowid = p.rowid, !.eof = p.eof, !.nomatch = p.nomatch]

TestOr(n) == OrOn(n, n.kids[OrPick(n.kids, 2, 1)])

RECURSIVE NodeNext(_, _, _, _)
RECURSIVE AndLoop(_, _, _, _, _)
RECURSIVE NotLoop(_)

\* The AND after its child k has become c.
AndMoved(n, top, ilast, k, same, c) ==
    IF c.eof THEN [SetEof([n EXCEPT !.kids[k] = c]) EXCEPT !.rowid = ilast]
    ELSE AndLoop([n EXCEPT !.kids[k] = c, !.nomatch = n.nomatch \/ c.nomatch], top,
                 c.rowid, k + 1, same /\ ilast = c.rowid)

\* An AND moves its children, in order, up to the latest row any of them
\* stands on (ilast), until one pass over the children from k on leaves
\* them all on one row; it is at the end as soon as a child is. Below the
\* root the position lists are emptied when that row is no match.
AndLoop(n, top, ilast, k, same) ==
    IF k > Len(n.kids)
    THEN IF same
         THEN [(IF n.nomatch /\ ~top THEN ZeroPoslist(n) ELSE n) EXCEPT !.rowid = ilast]
         ELSE AndLoop([n EXCEPT !.nomatch = FALSE], top, ilast, 1, TRUE)
    ELSE AndMoved(n, top, ilast, k, same,
                  IF RowidLess(n.kids[k].rowid, ilast)
                  THEN NodeNext(n.kids[k], FALSE, TRUE, ilast) ELSE n.kids[k])

TestAnd(n, top) == AndLoop([n EXCEPT !.nomatch = FALSE], top, n.rowid, 1, TRUE)

\* left NOT right with left on a row and right, p2, moved up to it.
NotAgainst(n, p2) ==
    LET p1 == n.kids[1]
    IN IF NodeCompare(p1, p2) # 0 \/ p2.nomatch
       THEN [n EXCEPT !.eof = FALSE, !.nomatch = p1.nomatch, !.rowid = p1.rowid,
                      !.kids[2] = p2]
       ELSE NotLoop([n EXCEPT !.kids[1] = NodeNext(p1, FALSE, FALSE, ZeroRowid),
                              !.kids[2] = p2])

\* left NOT right stands on the first row of left that right does not
\* match; right is moved up to the row of left only.
NotLoop(n) ==
    LET p1 == n.kids[1]
    IN IF p1.eof
       THEN [n EXCEPT !.eof = TRUE, !.nomatch = p1.nomatch, !.rowid = p1.rowid,
                      !.kids[2] = ZeroPoslist(n.kids[2])]
       ELSE NotAgainst(n, IF NodeCompare(p1, n.kids[2]) > 0
                          THEN NodeNext(n.kids[2], FALSE, TRUE, p1.rowid)
                          ELSE n.kids[2])

\* The node tested on the row it has been moved to.
NodeTest(n, top) ==
    IF n.eof THEN n
    ELSE CASE n.type = "TERM"   -> TestTerm(n)
           [] n.type = "STRING" -> TestString(n)
           [] n.type = "AND"    -> TestAnd(n, top)
           [] n.type = "OR"     -> TestOr(n)
           [] n.type = "NOT"    -> NotLoop(n)

\* The node moved to its next row, from rowid ifrom on when bfrom; top
\* tells the root of the expression.
NodeNext(n, top, bfrom, ifrom) ==
    IF n.eof THEN n
    ELSE CASE n.type \in {"TERM", "STRING"} -> NextLeaf(n, bfrom, ifrom)
           [] n.type = "AND" ->
                TestAnd([n EXCEPT !.kids[1] = NodeNext(@, FALSE, bfrom, ifrom)], top)
           [] n.type = "OR" ->
                TestOr([n EXCEPT !.kids = AsSeq([k \in 1..Len(n.kids) |->
                          LET c == n.kids[k] IN
                          IF ~c.eof /\ (c.rowid = n.rowid \/ (bfrom /\ RowidLess(c.rowid, ifrom)))
                          THEN NodeNext(c, FALSE, bfrom, ifrom) ELSE c])])
           [] n.type = "NOT" ->
                NotLoop([n EXCEPT !.kids[1] = NodeNext(@, FALSE, bfrom, ifrom)])

\* The phrases of a leaf with an iterator opened on the index for every term.
OpenIters(n, idx) ==
    AsSeq([k \in 1..Len(n.phrases) |->
        [n.phrases[k] EXCEPT !.iters =
            AsSeq([j \in 1..Len(n.phrases[k].terms) |->
                Iter(idx, n.phrases[k].terms[j], n.colset)])]])

\* A leaf on its first row, ps being its phrases with their iterators: at
\* the end when an iterator has no row.
LeafFirst(n, ps, top) ==
    NodeTest([n EXCEPT !.phrases = ps,
                       !.eof = \E k \in 1..Len(ps) : \E j \in 1..Len(ps[k].iters) :
                                  ItEof(ps[k].iters[j]),
                       !.nomatch = FALSE], top)

\* An operator on its first row, kids being its children on theirs.
KidsFirst(n, kids, top) ==
    LET neof == Cardinality({ k \in 1..Len(kids) : kids[k].eof })
        n1 == [n EXCEPT !.kids = kids, !.rowid = kids[1].rowid,
                        !.eof = FALSE, !.nomatch = FALSE]
    IN NodeTest(CASE n.type = "AND" -> IF neof > 0 THEN SetEof(n1) ELSE n1
                  [] n.type = "OR" -> IF neof = Len(kids) THEN SetEof(n1) ELSE n1
                  [] n.type = "NOT" -> [n1 EXCEPT !.eof = kids[1].eof],
                top)

RECURSIVE NodeFirst(_, _, _)
\* The node moved to its first row: the iterators of a leaf are opened on
\* the index idx, the children of an operator are moved first.
NodeFirst(n, idx, top) ==
    IF n.type = "EOF" THEN [n EXCEPT !.eof = TRUE, !.nomatch = FALSE]
    ELSE IF n.type \in {"TERM", "STRING"} THEN LeafFirst(n, OpenIters(n, idx), top)
    ELSE KidsFirst(n, AsSeq([k \in 1..Len(n.kids) |-> NodeFirst(n.kids[k], idx, FALSE)]),
                   top)

RECURSIVE Instances(_, _)
\* Occurrences <<first, last>> (token positions) of the phrases below n
\* that highlight() sees on row rowid: those of the leaves standing on it.
Instances(n, rowid) ==
    IF n.type \in {"TERM", "STRING"}
    THEN IF n.eof \/ n.rowid # rowid THEN {}
         ELSE UNION { { <<n.phrases[k].poslist[j],
                          n.phrases[k].poslist[j] + Len(n.phrases[k].terms) - 1>> :
                        j \in 1..Len(n.phrases[k].poslist) } :
                      k \in 1..Len(n.phrases) }
    ELSE UNION { Instances(n.kids[k], rowid) : k \in 1..Len(n.kids) }

RECURSIVE SkipNomatch(_)
\* The root moved on until the row it stands on is a match, or to its end.
SkipNomatch(r) ==
    IF r.nomatch THEN SkipNomatch(NodeNext(r, TRUE, FALSE, ZeroRowid)) ELSE r

RECURSIVE Collect(_, _)
\* The rows from the one the root stands on to the end.
Collect(r, acc) ==
    IF r.eof THEN acc
    ELSE Collect(SkipNomatch(NodeNext(r, TRUE, FALSE, ZeroRowid)),
                 Append(acc, [rowid |-> r.rowid, spans |-> Instances(r, r.rowid)]))

\* SELECT ... WHERE documents MATCH e: the matching rows in rowid order,
\* each with the occurrences highlight() marks in it.
Scan(e, tbl) == Collect(SkipNomatch(NodeFirst(e, Index(tbl), TRUE)), << >>)

\* highlight(documents, 0, pre, suf) on a row with the given occurrences:
\* the text of the row with every marked run of tokens wrapped in the two
\* markers; overlapping occurrences form one run.  The text before a run,
\* each run, the text after the last run and the markers are copied as C
\* strings.
Highlight(content, spans, pre, suf) ==
    LET Opens(i)  == (\E s \in spans : s[1] = i)
                     /\ ~\E s \in spans : s[1] < i /\ i <= s[2]
        Closes(i) == (\E s \in spans : s[2] = i)
                     /\ ~\E s \in spans : s[1] <= i /\ i < s[2]
        \* where the text not yet copied starts when token i opens a run,
        \* and where the run that token i closes starts
        Copied(toks, i) == { k \in 1..(i - 1) : Closes(k) }
        Opened(i) == { k \in 1..i : Opens(k) }
        Before(toks, i) ==
            CString(SubSeq(content,
                           IF Copied(toks, i) = {} THEN 1
                           ELSE toks[Max(Copied(toks, i))].last + 1,
                           toks[i].first - 1))
        Run(toks, i) ==
            CString(SubSeq(content, toks[Max(Opened(i))].first, toks[i].last))
        Marked(toks, n) ==
            Join(<< >>, [i \in 1..n |->
                    (IF Opens(i) THEN Before(toks, i) \o CString(pre) ELSE << >>)
                    \o (IF Closes(i) THEN Run(toks, i) \o CString(suf)
                        ELSE << >>)])
            \o CString(SubSeq(content,
                              IF Copied(toks, n + 1) = {} THEN 1
                              ELSE toks[Max(Copied(toks, n + 1))].last + 1,
                              Len(content)))
        Of(toks) == Marked(toks, Len(toks))
    IN Of(Tokenize(content))


\* ------------------------------------------------------------ the store
\* Error kinds, named after the Python exception the caller sees.  The
\* engine's errors for a text it cannot compile to a query ("fts5: syntax
\* error near ...", "unterminated string", "no such column: ...", "expected
\* integer, got ...") are the one kind QuerySyntaxError.
NoError        == "none"
ClosedError    == "ProgrammingError: Cannot operate on a closed database"
BindingsError  == "ProgrammingError: Incorrect number of bindings supplied"
IntegrityError == "IntegrityError: constraint failed"
QuerySyntaxError == "OperationalError: fts5: syntax error"
UnknownSpecialQuery == "OperationalError: unknown special query"
NoSuchCursor   == "OperationalError: no such cursor"
FullError      == "OperationalError: database or disk is full"
ValueError     == "ValueError: not enough values to unpack"
RuntimeError   == "RuntimeError: FTS5 extension not available in this SQLite build."
AttributeError == "AttributeError: enable_load_extension"

\* The rowids the engine's random number generator comes up with (any
\* positive rowid in the engine).
RandomRowids == { Rowid(i) : i \in 1..MaxId }

\* Variant: when the largest rowid there is is taken, the first random
\* number is the rowid, in use or not.
NextRowid_first_draw(tbl, rnd) ==
    LET used == { r[1] : r \in tbl } IN
    IF tbl = {} THEN <<Rowid(1)>>
    ELSE IF MaxRowid(used) # LargestRowid THEN <<RowidSucc(MaxRowid(used))>>
    ELSE <<rnd[1]>>

\* The rowid the engine assigns when none is given: 1 in an empty table,
\* else one past the largest; when the largest rowid there is is taken, the
\* first unused one of the random numbers rnd, << >> when all are in use.
NextRowid(tbl, rnd) ==
    LET used == { r[1] : r \in tbl } IN
    IF tbl = {} THEN <<Rowid(1)>>
    ELSE IF MaxRowid(used) # LargestRowid THEN <<RowidSucc(MaxRowid(used))>>
    ELSE LET free == { i \in 1..Len(rnd) : rnd[i] \notin used }
         IN IF free = {} THEN << >> ELSE <<rnd[Min(free)]>>

\* The random numbers left after the engine has assigned a rowid.
DrawsLeft(tbl, rnd) ==
    LET used == { r[1] : r \in tbl }
        free == { i \in 1..Len(rnd) : rnd[i] \notin used }
    IN IF tbl = {} \/ MaxRowid(used) # LargestRowid THEN rnd
       ELSE IF free = {} THEN << >>
       ELSE SubSeq(rnd, Min(free) + 1, Len(rnd))

\* INSERT INTO documents(rowid, content) / INSERT INTO documents(content):
\* the rowid is the primary key of the FTS5 content table. rnd are the
\* random numbers the engine draws should it have to search for a rowid.
EngineInsert(tbl, doc_id, content, rnd) ==
    IF doc_id = << >>
    THEN LET new == NextRowid(tbl, rnd) IN
         IF new = << >> THEN [table |-> tbl, err |-> FullError, rnd |-> << >>]
         ELSE [table |-> tbl \cup {<<new[1], content>>}, err |-> NoError,
               rnd |-> DrawsLeft(tbl, rnd)]
    ELSE IF \E r \in tbl : r[1] = doc_id[1]
         THEN [table |-> tbl, err |-> IntegrityError, rnd |-> rnd]
         ELSE [table |-> tbl \cup {<<doc_id[1], content>>}, err |-> NoError,
               rnd |-> rnd]

\* conn.commit()
Commit(s) == [s EXCEPT !.committed = s.table]

add_document(s, content, doc_id, rnd) ==
    IF s.conn # "open" THEN [s |-> s, err |-> ClosedError, rnd |-> rnd]
    ELSE LET r == EngineInsert(s.table, doc_id, content, rnd) IN
         IF r.err # NoError THEN [s |-> s, err |-> r.err, rnd |-> r.rnd]
         ELSE [s |-> Commit([s EXCEPT !.table = r.table]), err |-> NoError,
               rnd |-> r.rnd]

\* The parameter tuple add_documents builds for one (doc_id, content) pair.
Param(doc) == IF doc[1] # << >> THEN <<doc[1], doc[2]>> ELSE <<doc[2]>>

RECURSIVE ExecuteMany(_, _, _, _)
\* conn.executemany(sql, params) for an INSERT with nph placeholders: the
\* statement runs once per tuple, in order, and stops at the first failure;
\* the rows of the earlier tuples stay in the open transaction.
ExecuteMany(tbl, nph, params, rnd) ==
    IF params = << >> THEN [table |-> tbl, err |-> NoError]
    ELSE LET p == Head(params) IN
         IF Len(p) # nph THEN [table |-> tbl, err |-> BindingsError]
         ELSE LET r == IF nph = 2 THEN EngineInsert(tbl, p[1], p[2], rnd)
                                  ELSE EngineInsert(tbl, << >>, p[1], rnd)
              IN IF r.err # NoError THEN [table |-> tbl, err |-> r.err]
                 ELSE ExecuteMany(r.table, nph, Tail(params), r.rnd)

add_documents(s, docs, rnd) ==
    IF \E i \in 1..Len(docs) : Len(docs[i]) # 2
    THEN [s |-> s, err |-> ValueError]
    ELSE LET params == [i \in 1..Len(docs) |-> Param(docs[i])]
             nph == IF params # << >> /\ Len(params[1]) = 2 THEN 2 ELSE 1
         IN IF s.conn # "open" THEN [s |-> s, err |-> ClosedError]
            ELSE LET r == ExecuteMany(s.table, nph, params, rnd) IN
                 IF r.err # NoError
                 THEN [s |-> [s EXCEPT !.table = r.table], err |-> r.err]
                 ELSE [s |-> Commit([s EXCEPT !.table = r.table]), err |-> NoError]

\* Keyword arguments of the search methods; an absent one takes its default.
NoKw == [highlight |-> << >>, hl_prefix |-> << >>, hl_suffix |-> << >>]
hl_prefix_default == <<"<", "b", ">">>
hl_suffix_default == <<"<", "/", "b", ">">>
KwHighlight(kw) == IF kw.highlight = << >> THEN FALSE ELSE kw.highlight[1]
KwPrefix(kw) == IF kw.hl_prefix = << >> THEN hl_prefix_default ELSE kw.hl_prefix[1]
KwSuffix(kw) == IF kw.hl_suffix = << >> THEN hl_suffix_default ELSE kw.hl_suffix[1]

\* The content of the row rowid.
Content(tbl, rowid) == (CHOOSE r \in tbl : r[1] = rowid)[2]

\* cursor.fetchall(): one tuple per hit, in the shape of the statement run.
Fetch(tbl, hits, kw) ==
    IF KwHighlight(kw)
    THEN [i \in 1..Len(hits) |->
            <<hits[i].rowid,
              Highlight(Content(tbl, hits[i].rowid), hits[i].spans,
                        KwPrefix(kw), KwSuffix(kw)),
              Content(tbl, hits[i].rowid)>>]
    ELSE [i \in 1..Len(hits) |-> <<hits[i].rowid, Content(tbl, hits[i].rowid)>>]

\* SQL NULL, None in a fetched row: not a string, as it holds one element
\* that is no character.
Null == <<"NULL">>

\* A MATCH argument whose first character is "*" is a special query: it is
\* not parsed, but names a counter of the engine by the text after the "*"
\* and any spaces, as far as the next space or the end of the C string.
IsSpecial(query) == query # << >> /\ query[1] = "*"
SpecialName(query) ==
    LET z == CString(query)
        From(j) == SubSeq(z, j, (CHOOSE e \in j..(Len(z) + 1) :
                                    /\ \A k \in j..(e - 1) : z[k] # " "
                                    /\ (e > Len(z) \/ z[e] = " ")) - 1)
    IN From(CHOOSE j \in 2..(Len(z) + 1) :
                /\ \A k \in 2..(j - 1) : z[k] = " "
                /\ (j > Len(z) \/ z[j] # " "))

\* A special query yields one row with rowid 0 and NULL columns, whatever
\* the table holds.  "*id" names the id of the cursor that runs the query,
\* "*reads" the number of index reads so far, without regard to ASCII case.
\* highlight() looks its cursor up by the number named: under "*reads" it
\* finds its cursor when the two counters agree.  eng holds the counters:
\* csr, the id of the cursor, and reads.
SpecialMatch(query, kw, eng) ==
    LET row == IF KwHighlight(kw) THEN <<ZeroRowid, Null, Null>>
               ELSE <<ZeroRowid, Null>>
        Named(name) ==
            IF name \notin { <<"i", "d">>, <<"r", "e", "a", "d", "s">> }
            THEN [err |-> UnknownSpecialQuery, ret |-> << >>, handed |-> <<query>>]
            ELSE IF KwHighlight(kw) /\ name # <<"i", "d">> /\ eng.reads # eng.csr
            THEN [err |-> NoSuchCursor, ret |-> << >>, handed |-> <<query>>]
            ELSE [err |-> NoError, ret |-> <<row>>, handed |-> <<query>>]
    IN Named(Lower(SpecialName(query)))

\* cursor.execute(sql, (query, ...)) and fetchall() for the parsed query e.
Execute(s, query, e, kw) ==
    IF e = SyntaxError
    THEN [err |-> QuerySyntaxError, ret |-> << >>, handed |-> <<query>>]
    ELSE [err |-> NoError, handed |-> <<query>>,
          ret |-> Fetch(s.table, Scan(e, s.table), kw)]

\* search(query, highlight, hl_prefix, hl_suffix): the fetched rows, or the
\* error; handed is the query the engine received, << >> when it got none.
\* eng are the engine's counters at the call.
search(s, query, kw, eng) ==
    IF s.conn # "open"
    THEN [err |-> ClosedError, ret |-> << >>, handed |-> << >>]
    ELSE IF IsSpecial(query) THEN SpecialMatch(query, kw, eng)
    ELSE Execute(s, query, Parse(query), kw)

\* A terms argument is a str or a sequence of str; a str is promoted.
TermList(terms) == IF terms.isstr THEN <<terms.v>> ELSE terms.v

search_phrase_query(phrase) == <<"\"">> \o phrase \o <<"\"">>
search_prefix_query(prefix) == prefix \o <<"*">>
search_and_query(terms) == Join(<<" ", "A", "N", "D", " ">>, TermList(terms))
search_or_query(terms) == Join(<<" ", "O", "R", " ">>, TermList(terms))
search_not_query(include_term, exclude_term) ==
    include_term \o <<" ", "N", "O", "T", " ">> \o exclude_term
search_near_query(terms, max_distance) ==
    <<"N", "E", "A", "R", "(">> \o Join(<<" ">>, TermList(terms))
        \o <<",", " ">> \o IntToStr(max_distance) \o <<")">>

search_phrase(s, phrase, kw, eng) ==
    search(s, search_phrase_query(phrase), kw, eng)
search_prefix(s, prefix, kw, eng) ==
    search(s, search_prefix_query(prefix), kw, eng)
search_and(s, terms, kw, eng) == search(s, search_and_query(terms), kw, eng)
search_or(s, terms, kw, eng) == search(s, search_or_query(terms), kw, eng)
search_not(s, include_term, exclude_term, kw, eng) ==
    search(s, search_not_query(include_term, exclude_term), kw, eng)
search_near(s, terms, max_distance, kw, eng) ==
    search(s, search_near_query(terms, max_distance), kw, eng)

\* Variant: close() leaves the connection as it is.
close_keeps_connection(s) == s

\* conn.close(): a no-op on a closed connection; the in-memory database,
\* uncommitted rows included, is gone once its connection is closed.
close(s) == [conn |-> "closed", table |-> {}, committed |-> {}]

\* Variant: __exit__ closes only when the body ended without an exception.
__exit__skips_on_exception(s, exc) ==
    IF exc = NoError THEN [s |-> close(s), closes |-> 1, suppress |-> FALSE]
    ELSE [s |-> s, closes |-> 0, suppress |-> FALSE]

\* __exit__(exc_type, ...): closes and returns None, so that the exception
\* of the body, if any, is not suppressed.
__exit__(s, exc) == [s |-> close(s), closes |-> 1, suppress |-> FALSE]

\* __init__(documents) in an environment env: which step failed, the error,
\* and the store when every step succeeded.
NewStore == [conn |-> "open", table |-> {}, committed |-> {}]
NoStore == [conn |-> "none", table |-> {}, committed |-> {}]

\* Variant: the try block also covers the insertion of the documents.
__init__wide_try(env, documents, rnd) ==
    IF ~env.loadExt
    THEN [s |-> NoStore, err |-> AttributeError, failedAt |-> "enable_load_extension"]
    ELSE IF ~env.fts5
    THEN [s |-> NoStore, err |-> RuntimeError, failedAt |-> "create"]
    ELSE IF documents = << >> \/ documents[1] = << >>
    THEN [s |-> NewStore, err |-> NoError, failedAt |-> "none"]
    ELSE LET r == add_documents(NewStore, documents[1], rnd) IN
         IF r.err # NoError
         THEN [s |-> NoStore, err |-> RuntimeError, failedAt |-> "add_documents"]
         ELSE [s |-> r.s, err |-> NoError, failedAt |-> "none"]

__init__(env, documents, rnd) ==
    IF ~env.loadExt
    THEN [s |-> NoStore, err |-> AttributeError, failedAt |-> "enable_load_extension"]
    ELSE IF ~env.fts5
    THEN [s |-> NoStore, err |-> RuntimeError, failedAt |-> "create"]
    ELSE IF documents = << >> \/ documents[1] = << >>
    THEN [s |-> NewStore, err |-> NoError, failedAt |-> "none"]
    ELSE LET r == add_documents(NewStore, documents[1], rnd) IN
         IF r.err # NoError
         THEN [s |-> NoStore, err |-> r.err, failedAt |-> "add_documents"]
         ELSE [s |-> r.s, err |-> NoError, failedAt |-> "none"]


\* ------------------------------------------------------ the caller's inputs
Contents == { <<"a", " ", "b">>, <<"A", "-", "c", "b", " ", "b">> }
DocIds == { << >> } \cup { <<Rowid(i)>> : i \in 1..MaxId }
\* The random numbers the engine may draw during one call: it draws only
\* when the table holds the largest rowid.
Draws(tbl) ==
    IF \E r \in tbl : r[1] = LargestRowid THEN [1..MaxDraws -> RandomRowids]
    ELSE { << >> }

\* The rows of a table below the largest rowid: inserts are enabled while
\* there are fewer than MaxDocs of them.
Below(tbl) == { r \in tbl : r[1] # LargestRowid }

\* (doc_id, content) pairs, and one malformed 1-tuple
Pairs == { <<d, c>> : d \in DocIds, c \in Contents } \cup { <<(<<Rowid(1)>>)>> }
DocSeqs == UNION { [1..n -> Pairs] : n \in 0..MaxBatch }
Envs == [loadExt : BOOLEAN, fts5 : BOOLEAN]

Terms == { <<"a">>, <<"b">> }
TermSeqs == UNION { [1..n -> Terms] : n \in 0..MaxTerms }
TermArgs == { [isstr |-> TRUE, v |-> t] : t \in Terms }
            \cup { [isstr |-> FALSE, v |-> ts] : ts \in TermSeqs }
Phrases == { <<"a", " ", "b">>, <<"b", " ", "a">> }
Prefixes == { <<"a">>, <<"c">>, << >> }
Distances == { -1, 0, 10 }
RawQueries == { <<"b">>, <<"a", " ", "A", "N", "D", " ", "b">>, << >>,
                <<"a", " ", "b">>, <<"*", "i", "d">>,
                <<"*", "r", "e", "a", "d", "s">> }
\* The engine's counters at a search: the id of the cursor the statement
\* opens (every SELECT run so far has taken one) and the index reads so far.
\* Only a special query depends on them.
Engines(query) ==
    IF IsSpecial(query)
    THEN [csr : 1..MaxCsrId, reads : 0..MaxReads]
    ELSE { [csr |-> 1, reads |-> 0] }
KwArgs == { NoKw,
            [highlight |-> <<TRUE>>, hl_prefix |-> << >>, hl_suffix |-> << >>],
            [highlight |-> <<TRUE>>, hl_prefix |-> <<(<<"[">>)>>,
             hl_suffix |-> <<(<<"]">>)>>] }
BodyError == "KeyError"

\* --------------------------------------------------------------- the state
VARIABLES
    phase,       \* "new": not constructed; "live"; "failed": __init__ raised
    conn,        \* "none", "open" or "closed": self.conn
    table,       \* rows <<rowid, content>> of documents the connection sees
    committed,   \* rows of documents as of the last commit
    block,       \* the with-block: "none", "inside" or "exited"
    bodyExc,     \* the exception that left the body of the with-block
    propagated,  \* the exception the with-statement passed on to its caller
    exitCloses,  \* close() calls made by __exit__
    closeCalls,  \* all close() calls
    pc,          \* the caller: "idle", or "returned" from the call in last
    last         \* the last call: its arguments, the state before, the outcome

vars == <<phase, conn, table, committed, block, bodyExc, propagated,
          exitCloses, closeCalls, pc, last>>

S == [conn |-> conn, table |-> table, committed |-> committed]

SetStore(s) ==
    /\ conn' = s.conn
    /\ table' = s.table
    /\ committed' = s.committed

Call(op, arg, kw, err, ret, query, handed) ==
    [op |-> op, arg |-> arg, kw |-> kw, pre |-> table,
     err |-> err, ret |-> ret, query |-> query, handed |-> handed]

Init ==
    /\ phase = "new"
    /\ conn = "none"
    /\ table = {}
    /\ committed = {}
    /\ block = "none"
    /\ bodyExc = NoError
    /\ propagated = NoError
    /\ exitCloses = 0
    /\ closeCalls = 0
    /\ pc = "idle"
    /\ last = [op |-> "none", arg |-> << >>, kw |-> NoKw, pre |-> {},
               err |-> NoError, ret |-> << >>,
               query |-> << >>, handed |-> << >>]

DocSet(docs) == { docs[i] : i \in 1..Len(docs) }

\* FullTextSearchDB(documents)
Construct ==
    /\ phase = "new"
    /\ pc' = "returned"
    /\ \E env \in Envs, documents \in { << >> } \cup { <<d>> : d \in DocSeqs },
          rnd \in Draws({}) :
         LET r == __init__(env, documents, rnd) IN
         /\ phase' = IF r.err = NoError THEN "live" ELSE "failed"
         /\ SetStore(r.s)
         /\ last' = Call("__init__", [env |-> env, documents |-> documents,
                                      failedAt |-> r.failedAt],
                         NoKw, r.err, << >>, << >>, << >>)
    /\ UNCHANGED <<block, bodyExc, propagated, exitCloses, closeCalls>>

\* with db: ...
Enter ==
    /\ phase = "live"
    /\ block = "none"
    /\ pc = "idle"
    /\ block' = "inside"
    /\ UNCHANGED <<phase, conn, table, committed, bodyExc, propagated,
                   exitCloses, closeCalls, pc, last>>

AddDocument ==
    /\ phase = "live"
    /\ pc = "idle"
    /\ pc' = "returned"
    /\ Cardinality(Below(table)) < MaxDocs
    /\ \E content \in Contents, doc_id \in DocIds \cup { <<LargestRowid>> },
          rnd \in Draws(table) :
         LET r == add_document(S, content, doc_id, rnd) IN
         /\ SetStore(r.s)
         /\ last' = Call("add_document", <<content, doc_id>>, NoKw, r.err,
                         << >>, << >>, << >>)
    /\ UNCHANGED <<phase, block, bodyExc, propagated, exitCloses, closeCalls>>

AddDocuments ==
    /\ phase = "live"
    /\ pc = "idle"
    /\ pc' = "returned"
    /\ \E docs \in DocSeqs :
         /\ Cardinality(Below(table)) + Len(docs) <= MaxDocs
         /\ \E rnd \in Draws(table) :
            LET r == add_documents(S, docs, rnd) IN
            /\ SetStore(r.s)
            /\ last' = Call("add_documents", docs, NoKw, r.err,
                            << >>, << >>, << >>)
    /\ UNCHANGED <<phase, block, bodyExc, propagated, exitCloses, closeCalls>>

\* The part of a search call that is the same for search and its helpers.
Searched(op, arg, kw, query, r) ==
    /\ phase = "live"
    /\ pc = "idle"
    /\ pc' = "returned"
    /\ last' = Call(op, arg, kw, r.err, r.ret, <<query>>, r.handed)
    /\ UNCHANGED <<phase, conn, table, committed, block, bodyExc, propagated,
                   exitCloses, closeCalls>>

Search ==
    \E query \in RawQueries, kw \in KwArgs :
        \E eng \in Engines(query) :
            Searched("search", query, kw, query, search(S, query, kw, eng))

SearchPhrase ==
    \E phrase \in Phrases, kw \in KwArgs :
        \E eng \in Engines(search_phrase_query(phrase)) :
            Searched("search_phrase", phrase, kw, search_phrase_query(phrase),
                     search_phrase(S, phrase, kw, eng))

SearchPrefix ==
    \E prefix \in Prefixes, kw \in KwArgs :
        \E eng \in Engines(search_prefix_query(prefix)) :
            Searched("search_prefix", prefix, kw, search_prefix_query(prefix),
                     search_prefix(S, prefix, kw, eng))

SearchAnd ==
    \E terms \in TermArgs, kw \in KwArgs :
        \E eng \in Engines(search_and_query(terms)) :
            Searched("search_and", terms, kw, search_and_query(terms),
                     search_and(S, terms, kw, eng))

SearchOr ==
    \E terms \in TermArgs, kw \in KwArgs :
        \E eng \in Engines(search_or_query(terms)) :
            Searched("search_or", terms, kw, search_or_query(terms),
                     search_or(S, terms, kw, eng))

SearchNot ==
    \E include_term \in Terms, exclude_term \in Terms, kw \in KwArgs :
        \E eng \in Engines(search_not_query(include_term, exclude_term)) :
            Searched("search_not", <<include_term, exclude_term>>, kw,
                     search_not_query(include_term, exclude_term),
                     search_not(S, include_term, exclude_term, kw, eng))

SearchNear ==
    \E terms \in TermArgs, max_distance \in Distances, kw \in KwArgs :
        \E eng \in Engines(search_near_query(terms, max_distance)) :
            Searched("search_near",
                     [terms |-> terms, max_distance |-> max_distance],
                     kw, search_near_query(terms, max_distance),
                     search_near(S, terms, max_distance, kw, eng))

\* db.close(), called by the caller
Close ==
    /\ phase = "live"
    /\ pc = "idle"
    /\ pc' = "returned"
    /\ closeCalls < MaxCloses
    /\ SetStore(close(S))
    /\ closeCalls' = closeCalls + 1
    /\ last' = Call("close", << >>, NoKw, NoError, << >>, << >>, << >>)
    /\ UNCHANGED <<phase, block, bodyExc, propagated, exitCloses>>

\* The body of the with-block ends, normally or with an exception: one the
\* body raised itself, or the error of the call it made last.
WithExit ==
    /\ block = "inside"
    /\ \E exc \in {NoError, BodyError, last.err} :
         LET r == __exit__(S, exc) IN
         /\ SetStore(r.s)
         /\ bodyExc' = exc
         /\ propagated' = IF r.suppress THEN NoError ELSE exc
         /\ exitCloses' = exitCloses + r.closes
         /\ closeCalls' = closeCalls + r.closes
         /\ last' = Call("__exit__", exc, NoKw, NoError, << >>, << >>, << >>)
    /\ block' = "exited"
    /\ pc' = "returned"
    /\ UNCHANGED phase

\* The caller has taken the outcome of its last call and is free to make
\* the next one.
Return ==
    /\ phase = "live"
    /\ pc = "returned"
    /\ pc' = "idle"
    /\ last' = [op |-> "none", arg |-> << >>, kw |-> NoKw, pre |-> {},
                err |-> NoError, ret |-> << >>,
                query |-> << >>, handed |-> << >>]
    /\ UNCHANGED <<phase, conn, table, committed, block, bodyExc, propagated,
                   exitCloses, closeCalls>>

Next ==
    \/ Construct
    \/ Enter
    \/ Close
    \/ WithExit
    \/ AddDocument
    \/ AddDocuments
    \/ Search
    \/ SearchPhrase
    \/ SearchPrefix
    \/ SearchAnd
    \/ SearchOr
    \/ SearchNot
    \/ SearchNear
    \/ Return

Spec == Init /\ [][Next]_vars

\* ------------------------------------------------------------- the claims
SearchOps == {"search", "search_phrase", "search_prefix", "search_and",
              "search_or", "search_not", "search_near"}
InsertOps == {"add_document", "add_documents"}

\* The error the specification names for a rejected builder input.
InvalidQueryConstruction == "InvalidQueryConstruction"

Malformed(docs) == \E i \in 1..Len(docs) : Len(docs[i]) # 2

\* C1 (as stated): once close() has been performed, every later operation,
\* close included, fails with the store-closed error.
C1_EveryOperationAfterCloseFails ==
    /\ (last.op \in SearchOps \cup InsertOps /\ closeCalls >= 1)
          => last.err = ClosedError
    /\ (last.op = "close" /\ closeCalls >= 2) => last.err = ClosedError

\* C1 (amended): once close() has been performed, by a call or by __exit__,
\* every later insert or search fails, returns nothing, hands nothing to the
\* engine and leaves the store closed: with the store-closed error, except
\* that add_documents fails with ValueError on a malformed pair; a repeated
\* close() succeeds and leaves the store closed.
C1_AfterClose ==
    /\ closeCalls >= 1 => conn = "closed" /\ table = {}
    /\ (last.op \in SearchOps \cup InsertOps /\ closeCalls >= 1) =>
          /\ last.ret = << >>
          /\ last.handed = << >>
          /\ last.err = IF last.op = "add_documents" /\ Malformed(last.arg)
                        THEN ValueError ELSE ClosedError
    /\ (last.op = "close" /\ closeCalls >= 2) => last.err = NoError

\* A search fails on a store that only __exit__ has closed.
C1_Witness ==
    /\ block = "exited"
    /\ closeCalls = 1
    /\ exitCloses = 1
    /\ last.op = "search_phrase"
    /\ last.err = ClosedError

\* C2: leaving the with-block invokes close() exactly once, on normal exit
\* and when an exception leaves the body, which then reaches the caller,
\* also when the body had called close() itself.
C2_ExitClosesOnce ==
    /\ block = "exited" =>
          /\ exitCloses = 1
          /\ conn = "closed"
          /\ propagated = bodyExc
    /\ block # "exited" => exitCloses = 0 /\ propagated = NoError

\* The body closed the store and then raised; __exit__ closed once more.
C2_Witness ==
    /\ block = "exited"
    /\ bodyExc = BodyError
    /\ propagated = BodyError
    /\ exitCloses = 1
    /\ closeCalls = 2

\* C3 (as stated): add_documents is atomic: after a call that failed none of
\* its documents is visible, and after a call that succeeded all are.
C3_BulkInsertAtomic ==
    (last.op = "add_documents" /\ conn = "open") =>
        IF last.err # NoError THEN table = last.pre
        ELSE \A i \in 1..Len(last.arg) :
                \E r \in table \ last.pre :
                    /\ r[2] = last.arg[i][2]
                    /\ last.arg[i][1] # << >> => r[1] = last.arg[i][1][1]

\* C4: no two stored documents share an identifier; an insert under an id
\* that is present is rejected and changes nothing; an auto-assigned id is
\* new (the one insert without an id that fails is the one for which the
\* engine finds no unused rowid, and it changes nothing).
C4_UniqueIds ==
    /\ \A r1 \in table, r2 \in table : r1[1] = r2[1] => r1 = r2
    /\ (last.op = "add_document" /\ conn = "open" /\ last.arg[2] # << >>
        /\ \E r \in last.pre : r[1] = last.arg[2][1]) =>
          last.err = IntegrityError /\ table = last.pre
    /\ (last.op = "add_document" /\ conn = "open" /\ last.arg[2] = << >>) =>
          IF last.err # NoError
          THEN /\ last.err = FullError
               /\ table = last.pre
               /\ \E rnd \in Draws(last.pre) : NextRowid(last.pre, rnd) = << >>
          ELSE \E r \in table \ last.pre :
                  /\ table = last.pre \cup {r}
                  /\ r[2] = last.arg[1]
                  /\ \A o \in last.pre : o[1] # r[1]

\* The table held the largest rowid there is and the rowid 1, and an insert
\* without an id stored its document under a rowid the engine drew.
C4_Witness ==
    /\ last.op = "add_document"
    /\ last.arg[2] = << >>
    /\ last.err = NoError
    /\ \E r \in last.pre : r[1] = LargestRowid
    /\ \E r \in last.pre : r[1] = Rowid(1)
    /\ \E r \in table \ last.pre : r[1] = Rowid(2)

\* ---- the match relation of the query language, document by document
\* The term is the token, or starts it when it is a prefix term.
TermIs(term, tok) == IF term.prefix THEN IsPrefixOf(term.tok, tok) ELSE tok = term.tok

\* The positions of the document's tokens at which the phrase occurs: its
\* terms are consecutive tokens from there on, the first ones under ^.
Occurrences(ph, toks) ==
    { p \in 1..Len(toks) :
        /\ p + Len(ph.terms) - 1 <= Len(toks)
        /\ \A j \in 1..Len(ph.terms) : TermIs(ph.terms[j], toks[p + j - 1])
        /\ ph.first => p = 1 }

\* Every phrase occurs and, when there are several, for some choice of
\* occurrences at most dist tokens lie between the end of any of them and
\* the start of the last one (m is where that one starts).
NearHolds(phrases, dist, toks) ==
    \E m \in 1..Len(toks) :
        /\ \E k \in 1..Len(phrases) : m \in Occurrences(phrases[k], toks)
        /\ \A k \in 1..Len(phrases) :
              \E p \in Occurrences(phrases[k], toks) :
                  /\ p <= m
                  /\ Len(phrases) > 1 => m - p - Len(phrases[k].terms) <= dist

RECURSIVE Sat(_, _)
\* The document with tokens toks satisfies the expression e.
Sat(e, toks) ==
    CASE e.type = "EOF" -> FALSE
      [] e.type \in {"TERM", "STRING"} ->
            e.colset # "none" /\ NearHolds(e.phrases, e.dist, toks)
      [] e.type = "AND" -> \A k \in 1..Len(e.kids) : Sat(e.kids[k], toks)
      [] e.type = "OR" -> \E k \in 1..Len(e.kids) : Sat(e.kids[k], toks)
      [] e.type = "NOT" -> Sat(e.kids[1], toks) /\ ~Sat(e.kids[2], toks)

Stored(d) ==
    IF d[1] # << >> THEN <<d[1][1], d[2]>> \in table
    ELSE \E r \in table : r[2] = d[2]

\* A search returns one row, carrying id and content, for exactly the stored
\* documents that satisfy the query; none satisfies a text that is no query.
SearchReturnsMatches ==
    (last.op \in SearchOps /\ last.err = NoError) =>
        LET e == Parse(last.query[1])
            ret == last.ret
            Row(i) == <<ret[i][1], ret[i][Len(ret[i])]>>
            hits == IF e = SyntaxError THEN {}
                    ELSE { r \in table : Sat(e, Words(r[2])) }
        IN /\ \A i \in 1..Len(ret) : Row(i) \in hits
           /\ \A r \in hits : \E i \in 1..Len(ret) : Row(i) = r
           /\ Len(ret) = Cardinality(hits)

\* An insert that succeeds stores its documents, under the id given.
InsertStores ==
    /\ (last.op = "add_document" /\ last.err = NoError) =>
          /\ Stored(<<last.arg[2], last.arg[1]>>)
          /\ Cardinality(table) = Cardinality(last.pre) + 1
    /\ (last.op = "add_documents" /\ last.err = NoError) =>
          /\ \A d \in DocSet(last.arg) : Stored(d)
          /\ Cardinality(table) = Cardinality(last.pre) + Len(last.arg)

\* No call drops or alters a stored document while the store stays open.
StoredStays == (conn = "open" /\ conn' = "open") => table \subseteq table'

\* C5 (as stated): on an open store a successful insert stores its
\* documents with id and content, no later call drops or alters a stored
\* document until close, and a search returns a row with id and content for
\* exactly the stored documents the engine's match relation accepts for the
\* query (the relation is stated by Sat, document by document, not by
\* running the engine's iterators).
C5_RoundTrip ==
    /\ [](SearchReturnsMatches /\ InsertStores)
    /\ [][StoredStays]_vars

\* C6 (as stated): for two or more terms search_and and search_or build
\* distinct queries; for an empty terms sequence both fail in the builder
\* and hand no query to the engine.
C6_AndOrBuilder ==
    (last.op \in {"search_and", "search_or"}) =>
        /\ Len(TermList(last.arg)) >= 2 =>
              search_and_query(last.arg) # search_or_query(last.arg)
        /\ TermList(last.arg) = << >> =>
              last.err = InvalidQueryConstruction /\ last.handed = << >>

RECURSIVE Marked(_, _, _, _, _)
\* h is the text c with the markers put in: pre and suf in turns, pre
\* first and suf last (open: a pre is not yet followed by its suf).
Marked(h, c, pre, suf, open) ==
    IF h = << >> THEN c = << >> /\ ~open
    ELSE \/ /\ ~open
            /\ IsPrefixOf(pre, h)
            /\ Marked(SubSeq(h, Len(pre) + 1, Len(h)), c, pre, suf, TRUE)
         \/ /\ open
            /\ IsPrefixOf(suf, h)
            /\ Marked(SubSeq(h, Len(suf) + 1, Len(h)), c, pre, suf, FALSE)
         \/ /\ c # << >>
            /\ h[1] = c[1]
            /\ Marked(Tail(h), Tail(c), pre, suf, open)

\* C7 (as stated): the rows of one search all have the shape the highlight
\* flag selects, (id, content) or (id, highlighted, content), for search and
\* every helper; the last element is the content stored under the id, and
\* the highlighted element is that content with the markers of the call put
\* in (so the helpers pass flag and markers on).
C7_RowShape ==
    (last.op \in SearchOps /\ last.err = NoError) =>
        \A i \in 1..Len(last.ret) :
            LET row == last.ret[i] IN
            IF KwHighlight(last.kw)
            THEN /\ Len(row) = 3
                 /\ <<row[1], row[3]>> \in table
                 /\ row[2] # row[3]
                 /\ Marked(row[2], row[3], KwPrefix(last.kw), KwSuffix(last.kw),
                           FALSE)
            ELSE /\ Len(row) = 2
                 /\ <<row[1], row[2]>> \in table

\* C8: construction raises the engine-unavailable error exactly when creating
\* the FTS5 table fails; a failure to prepare the connection or to insert the
\* initial documents surfaces as another error; when construction succeeds
\* all initial documents are stored and committed.
C8_Construction ==
    (last.op = "__init__") =>
        LET env == last.arg.env
            documents == last.arg.documents
        IN /\ last.err = RuntimeError <=> (env.loadExt /\ ~env.fts5)
           /\ ~env.loadExt => last.err = AttributeError
           /\ (env.loadExt /\ env.fts5) =>
                 last.err \in {NoError, IntegrityError, BindingsError, ValueError}
           /\ last.err = NoError <=> phase = "live"
           /\ (last.err = NoError /\ documents # << >>) =>
                 /\ \A d \in DocSet(documents[1]) : Stored(d)
                 /\ Cardinality(table) = Len(documents[1])
                 /\ committed = table

\* Construction failed because the FTS5 table could not be created.
C8_Witness ==
    /\ last.op = "__init__"
    /\ last.err = RuntimeError
    /\ last.arg.documents # << >>
    /\ phase = "failed"

\* C9 (as stated): search_near fails in the builder, handing nothing to the
\* engine, when max_distance is negative or terms is empty; otherwise its
\* query is NEAR(t1 ... tn, d).
C9_NearBuilder ==
    (last.op = "search_near") =>
        LET terms == TermList(last.arg.terms)
            d == last.arg.max_distance
        IN IF d < 0 \/ terms = << >>
           THEN last.err = InvalidQueryConstruction /\ last.handed = << >>
           ELSE last.query[1] = <<"N", "E", "A", "R", "(">> \o Join(<<" ">>, terms)
                                   \o <<",", " ">> \o IntToStr(d) \o <<")">>

RECURSIVE add_each(_, _, _)
\* add_document(content, doc_id) for each pair of docs, in order
add_each(s, docs, rnd) ==
    IF docs = << >> THEN [s |-> s, err |-> NoError, rnd |-> rnd]
    ELSE LET r == add_document(s, docs[1][2], docs[1][1], rnd) IN
         IF r.err # NoError THEN r ELSE add_each(r.s, Tail(docs), r.rnd)

\* C10 (as stated): for every sequence of pairs, mixed ones included, for
\* which add_document of each pair in order succeeds, add_documents succeeds
\* and leaves the store in the same state (with the random numbers the
\* engine drew, when it had to draw: it may also have found no rowid).
C10_BulkIsEachSingle ==
    (last.op = "add_documents" /\ conn = "open" /\ ~Malformed(last.arg)) =>
        LET Each(rnd) == add_each([conn |-> "open", table |-> last.pre,
                                   committed |-> last.pre], last.arg, rnd)
        IN (\E rnd \in Draws(last.pre) : Each(rnd).err = NoError) =>
              \/ last.err = FullError
              \/ /\ last.err = NoError
                 /\ \E rnd \in Draws(last.pre) :
                       /\ Each(rnd).err = NoError
                       /\ table = Each(rnd).s.table
                       /\ committed = Each(rnd).s.committed

=============================================================================
